---- MODULE Spec2Model ----
(***************************************************************************)
(* A model of the Job-Assistant repository's cv_coverletter.py: the URL    *)
(* plausibility check, the two cue-counting classifiers, the page-by-page  *)
(* PDF text extraction and the main() pipeline that wires them together.   *)
(*                                                                         *)
(* Python strings are modelled as sequences of one-character strings, so   *)
(* that len(), lower(), strip(), join() and the substring test `in` are    *)
(* computed on characters as Python computes them.                         *)
(***************************************************************************)
EXTENDS Integers, Sequences, FiniteSets

VARIABLES
    \* is_probable_job_url applied to a URL under construction
    url, urlSegs, urlDone, urlResult,
    \* looks_like_cv and looks_like_job_description applied to a text under construction
    text, textWords, textReady, cvDone, cvResult, jdDone, jdResult,
    \* extract_pdf_text applied to a PDF document under construction
    pdf, pdfDone, pdfResult,
    \* main(): the position in it, what the run was given, what it has done so far
    pc, env, job_url, job_text, cv_text, jd_verdict, cv_verdict, content,
    stdout, stderr, exit_code, ops,
    \* the runs made so far in this environment, and what the previous one did
    runs, prev

urlVars == <<url, urlSegs, urlDone, urlResult>>
textVars == <<text, textWords, textReady, cvDone, cvResult, jdDone, jdResult>>
pdfVars == <<pdf, pdfDone, pdfResult>>
runVars == <<pc, job_url, job_text, cv_text, jd_verdict, cv_verdict, content,
             stdout, stderr, exit_code, ops>>
mainVars == <<runVars, env, runs, prev>>
vars == <<urlVars, textVars, pdfVars, mainVars>>

(***************************************************************************)
(* Python string primitives                                                *)
(***************************************************************************)

\* str.lower() on one character (ASCII letters; other characters map to themselves)
LowerChar(c) ==
    CASE c = "A" -> "a" [] c = "B" -> "b" [] c = "C" -> "c" [] c = "D" -> "d"
      [] c = "E" -> "e" [] c = "F" -> "f" [] c = "G" -> "g" [] c = "H" -> "h"
      [] c = "I" -> "i" [] c = "J" -> "j" [] c = "K" -> "k" [] c = "L" -> "l"
      [] c = "M" -> "m" [] c = "N" -> "n" [] c = "O" -> "o" [] c = "P" -> "p"
      [] c = "Q" -> "q" [] c = "R" -> "r" [] c = "S" -> "s" [] c = "T" -> "t"
      [] c = "U" -> "u" [] c = "V" -> "v" [] c = "W" -> "w" [] c = "X" -> "x"
      [] c = "Y" -> "y" [] c = "Z" -> "z" [] OTHER -> c

\* str.lower()
Lower(s) == [i \in 1..Len(s) |-> LowerChar(s[i])]

\* s[i:i+len(sub)] == sub
MatchAt(s, sub, i) ==
    /\ i + Len(sub) - 1 <= Len(s)
    /\ \A j \in 1..Len(sub) : s[i + j - 1] = sub[j]

\* the substring test `sub in s`
Contains(s, sub) == \E i \in 1..(Len(s) - Len(sub) + 1) : MatchAt(s, sub, i)

\* s.startswith(prefix)
StartsWith(s, prefix) == MatchAt(s, prefix, 1)

\* the characters str.strip() removes (the ASCII ones a page text carries)
Whitespace == {" ", "\t", "\n", "\r", "\f"}

\* str.strip(): s without its leading and trailing whitespace
Strip(s) ==
    LET kept == {i \in 1..Len(s) : s[i] \notin Whitespace}
    IN  IF kept = {}
        THEN <<>>
        ELSE LET first == CHOOSE i \in kept : \A j \in kept : i <= j
                 last == CHOOSE i \in kept : \A j \in kept : j <= i
             IN  SubSeq(s, first, last)

\* sep.join(parts)
RECURSIVE Join(_, _)
Join(sep, parts) ==
    IF parts = <<>>
    THEN <<>>
    ELSE IF Len(parts) = 1
         THEN parts[1]
         ELSE parts[1] \o sep \o Join(sep, Tail(parts))

(***************************************************************************)
(* is_probable_job_url                                                     *)
(***************************************************************************)

\* Python's None for an Optional[str]: a missing value is <<>>, a string s is <<s>>
None == <<>>
Some(s) == <<s>>

\* `url or ""`: None and the empty string both give ""
OrEmpty(u) == IF u = None THEN <<>> ELSE u[1]

\* re.match(r"^https?://", s): "http", an optional "s", then "://", case-sensitive,
\* anchored at the first character
ReMatchScheme(s) ==
    /\ MatchAt(s, <<"h", "t", "t", "p">>, 1)
    /\ \/ MatchAt(s, <<":", "/", "/">>, 5)
       \/ MatchAt(s, <<"s", ":", "/", "/">>, 5)

\* hints = ["/jobs", "/careers", "/job/", "/positions", "/openings", "/positions/"]
hints ==
    << <<"/", "j", "o", "b", "s">>,
       <<"/", "c", "a", "r", "e", "e", "r", "s">>,
       <<"/", "j", "o", "b", "/">>,
       <<"/", "p", "o", "s", "i", "t", "i", "o", "n", "s">>,
       <<"/", "o", "p", "e", "n", "i", "n", "g", "s">>,
       <<"/", "p", "o", "s", "i", "t", "i", "o", "n", "s", "/">> >>

\* faulty variant: the hints are looked for in the URL as written, not lower-cased
is_probable_job_url_NoLower(u) ==
    IF ~ReMatchScheme(OrEmpty(u))
    THEN FALSE
    ELSE \E k \in 1..Len(hints) : Contains(u[1], hints[k])

\* faulty variant: the scheme check is dropped
is_probable_job_url_NoScheme(u) ==
    /\ u # None
    /\ \E k \in 1..Len(hints) : Contains(Lower(u[1]), hints[k])

is_probable_job_url(u) ==
    IF ~ReMatchScheme(OrEmpty(u))
    THEN FALSE
    ELSE \E k \in 1..Len(hints) : Contains(Lower(u[1]), hints[k])

(***************************************************************************)
(* looks_like_cv, looks_like_job_description                               *)
(***************************************************************************)

\* the length floor of looks_like_cv and of looks_like_job_description
CvMinLength == 500
JdMinLength == 500

\* cues = ["experience", "education", "skills", "projects", "summary", "work", "certification"]
cv_cues ==
    << <<"e", "x", "p", "e", "r", "i", "e", "n", "c", "e">>,
       <<"e", "d", "u", "c", "a", "t", "i", "o", "n">>,
       <<"s", "k", "i", "l", "l", "s">>,
       <<"p", "r", "o", "j", "e", "c", "t", "s">>,
       <<"s", "u", "m", "m", "a", "r", "y">>,
       <<"w", "o", "r", "k">>,
       <<"c", "e", "r", "t", "i", "f", "i", "c", "a", "t", "i", "o", "n">> >>

\* cues = ["responsibilities", "requirements", "qualifications", "role", "about the role", "what you'll do"]
jd_cues ==
    << <<"r", "e", "s", "p", "o", "n", "s", "i", "b", "i", "l", "i", "t", "i", "e", "s">>,
       <<"r", "e", "q", "u", "i", "r", "e", "m", "e", "n", "t", "s">>,
       <<"q", "u", "a", "l", "i", "f", "i", "c", "a", "t", "i", "o", "n", "s">>,
       <<"r", "o", "l", "e">>,
       <<"a", "b", "o", "u", "t", " ", "t", "h", "e", " ", "r", "o", "l", "e">>,
       <<"w", "h", "a", "t", " ", "y", "o", "u", "'", "l", "l", " ", "d", "o">> >>

\* sum(1 for c in cues if c in text.lower()): one per list entry found
CueCount(cues, t) ==
    LET low == Lower(t)
    IN  Cardinality({k \in 1..Len(cues) : Contains(low, cues[k])})

\* faulty variant: the floor is exclusive (len(text) <= 500 is rejected)
looks_like_cv_FloorExclusive(t) ==
    IF t = <<>> \/ Len(t) <= CvMinLength
    THEN FALSE
    ELSE CueCount(cv_cues, t) >= 2

looks_like_cv(t) ==
    IF t = <<>> \/ Len(t) < CvMinLength
    THEN FALSE
    ELSE CueCount(cv_cues, t) >= 2

\* faulty variant: the cues are looked for in the text as written, not lower-cased
looks_like_job_description_NoLower(t) ==
    IF t = <<>> \/ Len(t) < JdMinLength
    THEN FALSE
    ELSE Cardinality({k \in 1..Len(jd_cues) : Contains(t, jd_cues[k])}) >= 1

looks_like_job_description(t) ==
    IF t = <<>> \/ Len(t) < JdMinLength
    THEN FALSE
    ELSE CueCount(jd_cues, t) >= 1

(***************************************************************************)
(* extract_pdf_text                                                        *)
(***************************************************************************)

\* What PyPDF2 makes of one page: extract_text() returns a string ("text"),
\* returns None ("none") or raises ("raise").
TextPage(t) == [kind |-> "text", text |-> t]
NonePage == [kind |-> "none", text |-> <<>>]
RaisingPage == [kind |-> "raise", text |-> <<>>]

\* `page.extract_text() or ""`
TextOrEmpty(page) == IF page.kind = "text" THEN page.text ELSE <<>>

\* faulty variant: a page that raises leaves an empty entry in chunks
RECURSIVE ChunksEmptyOnRaise(_)
ChunksEmptyOnRaise(pages) ==
    IF pages = <<>>
    THEN <<>>
    ELSE Append(ChunksEmptyOnRaise(SubSeq(pages, 1, Len(pages) - 1)),
                TextOrEmpty(pages[Len(pages)]))

\* the body of `for page in reader.pages:` run over the pages in order: chunks
\* gets one entry for each page whose extract_text() returns, none for one that raises
RECURSIVE Chunks(_)
Chunks(pages) ==
    IF pages = <<>>
    THEN <<>>
    ELSE LET before == Chunks(SubSeq(pages, 1, Len(pages) - 1))
             page == pages[Len(pages)]
         IN  IF page.kind = "raise"
             THEN before
             ELSE Append(before, TextOrEmpty(page))

\* the outcome of a call: a returned string, or an exception that leaves the function
Returned(v) == [ok |-> TRUE, value |-> v]
Raised == [ok |-> FALSE, value |-> <<>>]

\* faulty variant: no try/except around extract_text(), so a raising page leaves the function
extract_pdf_text_NoTry(doc) ==
    IF ~doc.readable \/ \E i \in 1..Len(doc.pages) : doc.pages[i].kind = "raise"
    THEN Raised
    ELSE Returned(Strip(Join(<<"\n">>, Chunks(doc.pages))))

\* open(path, "rb") or PdfReader(f) raising leaves the function; otherwise the
\* chunks are joined with "\n" and stripped
extract_pdf_text(doc) ==
    IF ~doc.readable
    THEN Raised
    ELSE Returned(Strip(Join(<<"\n">>, Chunks(doc.pages))))

(***************************************************************************)
(* States of the parts a specification does not exercise                   *)
(***************************************************************************)

UrlIdle ==
    /\ url = None
    /\ urlSegs = 0
    /\ urlDone = FALSE
    /\ urlResult = FALSE

TextIdle ==
    /\ text = <<>>
    /\ textWords = 0
    /\ textReady = FALSE
    /\ cvDone = FALSE
    /\ cvResult = FALSE
    /\ jdDone = FALSE
    /\ jdResult = FALSE

PdfIdle ==
    /\ pdf = [readable |-> FALSE, pages |-> <<>>]
    /\ pdfDone = FALSE
    /\ pdfResult = Raised

\* what a run has before main() does anything
NoRun == [url |-> None, ops |-> <<>>, exit_code |-> -1, stdout |-> <<>>, stderr |-> <<>>]

FreshRun ==
    /\ pc = "check_key"
    /\ job_text = <<>>
    /\ cv_text = <<>>
    /\ jd_verdict = "uncalled"
    /\ cv_verdict = "uncalled"
    /\ content = "unset"
    /\ stdout = <<>>
    /\ stderr = <<>>
    /\ exit_code = -1
    /\ ops = <<>>

MainIdle ==
    /\ FreshRun
    /\ env = [api_key |-> FALSE, cv_exists |-> FALSE, page |-> "fail", doc |-> "unreadable", gen |-> "error"]
    /\ job_url = None
    /\ runs = 0
    /\ prev = NoRun

(***************************************************************************)
(* SpecUrl: is_probable_job_url on URLs written segment by segment         *)
(***************************************************************************)

MaxSegments == 2

UrlPrefixes ==
    { <<"h", "t", "t", "p", ":", "/", "/">>,
      <<"h", "t", "t", "p", "s", ":", "/", "/">>,
      <<"f", "t", "p", ":", "/", "/">>,
      <<"H", "T", "T", "P", "S", ":", "/", "/">>,
      <<"h", "t", "t", "p", ":", "/">>,
      <<" ", "h", "t", "t", "p", ":", "/", "/">>,
      <<>> }

HostCompany == <<"c", "o", "m", "p", "a", "n", "y", ".", "c", "o", "m">>

UrlSegments ==
    { <<"/", "c", "a", "r", "e", "e", "r", "s">>,
      <<"/", "1", "2", "3">>,
      <<"/", "a", "b", "o", "u", "t">>,
      <<"/", "j", "o", "b", "s">>,
      <<"/", "J", "O", "B", "S">>,
      <<"/", "j", "o", "b">>,
      <<"/">>,
      <<"/", "p", "o", "s", "i", "t", "i", "o", "n", "s">>,
      <<"/", "O", "p", "e", "n", "i", "n", "g", "s">> }

InitUrl ==
    /\ TextIdle
    /\ PdfIdle
    /\ MainIdle
    /\ url \in {None, Some(<<>>)} \cup {Some(p \o HostCompany) : p \in UrlPrefixes}
    /\ urlSegs = 0
    /\ urlDone = FALSE
    /\ urlResult = FALSE

\* the caller writes one more path segment of the URL
AppendSegment ==
    /\ ~urlDone
    /\ url # None
    /\ url[1] # <<>>
    /\ urlSegs < MaxSegments
    /\ \E seg \in UrlSegments : url' = Some(url[1] \o seg)
    /\ urlSegs' = urlSegs + 1
    /\ UNCHANGED <<urlDone, urlResult, textVars, pdfVars, mainVars>>

\* is_probable_job_url(url) is called and returns
CheckUrl ==
    /\ ~urlDone
    /\ urlResult' = is_probable_job_url(url)
    /\ urlDone' = TRUE
    /\ UNCHANGED <<url, urlSegs, textVars, pdfVars, mainVars>>

NextUrl == AppendSegment \/ CheckUrl

SpecUrl == InitUrl /\ [][NextUrl]_vars

(***************************************************************************)
(* SpecText: the classifiers on texts written word by word                 *)
(***************************************************************************)

MaxWords == 2

Words ==
    { <<"E", "x", "p", "e", "r", "i", "e", "n", "c", "e">>,
      <<"E", "D", "U", "C", "A", "T", "I", "O", "N">>,
      <<"N", "e", "t", "w", "o", "r", "k">>,
      <<"s", "u", "m", "m", "a", "r">>,
      <<"R", "e", "q", "u", "i", "r", "e", "m", "e", "n", "t", "s">>,
      <<"A", "b", "o", "u", "t", " ", "T", "h", "e", " ", "R", "o", "l", "e">>,
      <<"l", "o", "r", "e", "m">> }

\* the lengths a text is filled up to: none, one below the floor, the floor, one above
FillLengths == {0, CvMinLength - 1, CvMinLength, CvMinLength + 1}

\* s followed by filler up to length n (s itself when it is already that long)
FillTo(s, n) == s \o [i \in 1..(n - Len(s)) |-> "."]

\* one more word of the document, followed by a blank
AppendWord ==
    /\ ~textReady
    /\ textWords < MaxWords
    /\ \E w \in Words : text' = text \o w \o <<" ">>
    /\ textWords' = textWords + 1
    /\ UNCHANGED <<textReady, cvDone, cvResult, jdDone, jdResult, urlVars, pdfVars, mainVars>>

\* the document is complete: its words, then filler up to one of the lengths
FinishText ==
    /\ ~textReady
    /\ \E n \in FillLengths : text' = FillTo(text, n)
    /\ textReady' = TRUE
    /\ UNCHANGED <<textWords, cvDone, cvResult, jdDone, jdResult, urlVars, pdfVars, mainVars>>

\* looks_like_cv(text) is called and returns
ClassifyCv ==
    /\ textReady
    /\ ~cvDone
    /\ cvResult' = looks_like_cv(text)
    /\ cvDone' = TRUE
    /\ UNCHANGED <<text, textWords, textReady, jdDone, jdResult, urlVars, pdfVars, mainVars>>

\* looks_like_job_description(text) is called and returns
ClassifyJd ==
    /\ textReady
    /\ ~jdDone
    /\ jdResult' = looks_like_job_description(text)
    /\ jdDone' = TRUE
    /\ UNCHANGED <<text, textWords, textReady, cvDone, cvResult, urlVars, pdfVars, mainVars>>

InitText == TextIdle /\ UrlIdle /\ PdfIdle /\ MainIdle

NextText == AppendWord \/ FinishText \/ ClassifyCv \/ ClassifyJd

SpecText == InitText /\ [][NextText]_vars

(***************************************************************************)
(* SpecPdf: extract_pdf_text on documents built page by page               *)
(***************************************************************************)

MaxPages == 3

PageOutcomes ==
    { TextPage(<<"A", "l", "p", "h", "a">>),
      TextPage(<<" ", "B", "e", "t", "a">>),
      TextPage(<<"G", "a", "m", "m", "a", "\n">>),
      TextPage(<<>>),
      NonePage,
      RaisingPage }

InitPdf ==
    /\ UrlIdle
    /\ TextIdle
    /\ MainIdle
    /\ pdf \in {[readable |-> r, pages |-> <<>>] : r \in BOOLEAN}
    /\ pdfDone = FALSE
    /\ pdfResult = Raised

\* the document has one more page
AddPage ==
    /\ ~pdfDone
    /\ Len(pdf.pages) < MaxPages
    /\ \E page \in PageOutcomes : pdf' = [pdf EXCEPT !.pages = Append(@, page)]
    /\ UNCHANGED <<pdfDone, pdfResult, urlVars, textVars, mainVars>>

\* extract_pdf_text(path) is called on the document and returns or raises
ExtractPdf ==
    /\ ~pdfDone
    /\ pdfResult' = extract_pdf_text(pdf)
    /\ pdfDone' = TRUE
    /\ UNCHANGED <<pdf, urlVars, textVars, mainVars>>

NextPdf == AddPage \/ ExtractPdf

SpecPdf == InitPdf /\ [][NextPdf]_vars

(***************************************************************************)
(* Spec: main(), one run after another in one environment                  *)
(*                                                                         *)
(* A run starts where parse_args() has returned: it has a job URL and a CV *)
(* path.  The environment decides what the outside world answers (the      *)
(* credential, the file, the page, the PDF, the chat-completion service)   *)
(* and stays the same from one run to the next; only the URL changes.      *)
(***************************************************************************)

MaxRuns == 2

\* --job-url as the operator may give it
JobUrls ==
    { <<"h", "t", "t", "p", "s", ":", "/", "/", "c", "o", "m", "p", "a", "n", "y", ".", "c", "o", "m",
        "/", "c", "a", "r", "e", "e", "r", "s", "/", "1", "2", "3">>,
      <<"h", "t", "t", "p", "s", ":", "/", "/", "c", "o", "m", "p", "a", "n", "y", ".", "c", "o", "m",
        "/", "a", "b", "o", "u", "t">>,
      <<"h", "t", "t", "p", ":", "/", "/", "c", "o", "m", "p", "a", "n", "y", ".", "c", "o", "m",
        "/", "J", "O", "B", "S">> }

\* what fetch_job_text makes of the page behind the URL: it raises ("fail"), or
\* returns the page's text
JobPages == {"fail", "good", "short", "nocue"}

JobPageText(page) ==
    CASE page = "good" ->
            FillTo(<<"A", "b", "o", "u", "t", " ", "T", "h", "e", " ", "R", "o", "l", "e", "\n">>, 500)
      [] page = "short" ->
            FillTo(<<"R", "e", "q", "u", "i", "r", "e", "m", "e", "n", "t", "s", "\n">>, 120)
      [] page = "nocue" ->
            FillTo(<<"l", "o", "r", "e", "m", " ">>, 700)

\* the file behind --cv as PyPDF2 reads it
CvDocs == {"unreadable", "good", "short", "onecue", "scanned"}

CvDoc(doc) ==
    CASE doc = "unreadable" -> [readable |-> FALSE, pages |-> <<>>]
      [] doc = "good" ->
            [readable |-> TRUE,
             pages |-> << TextPage(FillTo(<<"E", "x", "p", "e", "r", "i", "e", "n", "c", "e", " ",
                                            "E", "D", "U", "C", "A", "T", "I", "O", "N", "\n">>, 300)),
                          RaisingPage,
                          TextPage(FillTo(<<"N", "e", "t", "w", "o", "r", "k", " ">>, 300)) >>]
      [] doc = "short" ->
            [readable |-> TRUE,
             pages |-> << TextPage(FillTo(<<"E", "x", "p", "e", "r", "i", "e", "n", "c", "e", " ",
                                            "E", "d", "u", "c", "a", "t", "i", "o", "n", " ",
                                            "w", "o", "r", "k", " ">>, 50)) >>]
      [] doc = "onecue" ->
            [readable |-> TRUE,
             pages |-> << TextPage(FillTo(<<"E", "x", "p", "e", "r", "i", "e", "n", "c", "e", " ">>, 600)) >>]
      [] doc = "scanned" ->
            [readable |-> TRUE, pages |-> <<NonePage, RaisingPage>>]

\* the environment of a run: OPENAI_API_KEY set, os.path.exists(args.cv), the
\* page behind the URL, the file behind the path, the chat-completion service
Environments ==
    [api_key : BOOLEAN, cv_exists : BOOLEAN, page : JobPages, doc : CvDocs, gen : {"ok", "error"}]

Init ==
    /\ UrlIdle
    /\ TextIdle
    /\ PdfIdle
    /\ FreshRun
    /\ env \in Environments
    /\ job_url \in {Some(u) : u \in JobUrls}
    /\ runs = 1
    /\ prev = NoRun

\* print(..., file=sys.stderr); sys.exit(code), or print(...); sys.exit(code)
Exit(code, out, err) ==
    /\ pc' = "exited"
    /\ exit_code' = code
    /\ stdout' = stdout \o out
    /\ stderr' = stderr \o err

\* one more operation on the outside world, with how it ended
Performed(op, ok) == Append(ops, [op |-> op, ok |-> ok])

\* lines 131-134: the credential
CheckApiKey ==
    /\ pc = "check_key"
    /\ IF ~env.api_key
       THEN Exit(2, <<>>, <<"error: OPENAI_API_KEY not set">>)
       ELSE /\ pc' = "check_url"
            /\ UNCHANGED <<stdout, stderr, exit_code>>
    /\ UNCHANGED <<job_url, job_text, cv_text, jd_verdict, cv_verdict, content, ops>>
    /\ UNCHANGED <<env, runs, prev, urlVars, textVars, pdfVars>>

\* faulty variant: a URL that fails the check ends the run
CheckJobUrl_Blocking ==
    /\ pc = "check_url"
    /\ IF ~is_probable_job_url(job_url)
       THEN Exit(2, <<"notice: URL does not look like a job posting">>, <<>>)
       ELSE /\ pc' = "check_cv"
            /\ UNCHANGED <<stdout, stderr, exit_code>>
    /\ UNCHANGED <<job_url, job_text, cv_text, jd_verdict, cv_verdict, content, ops>>
    /\ UNCHANGED <<env, runs, prev, urlVars, textVars, pdfVars>>

\* lines 137-138: the notice on a URL that does not look like a job posting
CheckJobUrl ==
    /\ pc = "check_url"
    /\ pc' = "check_cv"
    /\ stdout' = IF ~is_probable_job_url(job_url)
                 THEN Append(stdout, "notice: URL does not look like a job posting")
                 ELSE stdout
    /\ UNCHANGED <<job_url, job_text, cv_text, jd_verdict, cv_verdict, content, stderr, exit_code, ops>>
    /\ UNCHANGED <<env, runs, prev, urlVars, textVars, pdfVars>>

\* lines 139-141: the CV file
CheckCvFile ==
    /\ pc = "check_cv"
    /\ IF ~env.cv_exists
       THEN Exit(2, <<>>, <<"error: CV file not found">>)
       ELSE /\ pc' = "fetch"
            /\ UNCHANGED <<stdout, stderr, exit_code>>
    /\ UNCHANGED <<job_url, job_text, cv_text, jd_verdict, cv_verdict, content, ops>>
    /\ UNCHANGED <<env, runs, prev, urlVars, textVars, pdfVars>>

\* faulty variant: a failed fetch is reported and the run goes on with an empty text
FetchJob_GoesOn ==
    /\ pc = "fetch"
    /\ pc' = "extract"
    /\ ops' = Performed("fetch", env.page # "fail")
    /\ job_text' = IF env.page = "fail" THEN <<>> ELSE JobPageText(env.page)
    /\ stderr' = IF env.page = "fail" THEN Append(stderr, "error: Failed to fetch job posting") ELSE stderr
    /\ UNCHANGED <<job_url, cv_text, jd_verdict, cv_verdict, content, stdout, exit_code>>
    /\ UNCHANGED <<env, runs, prev, urlVars, textVars, pdfVars>>

\* lines 143-148: fetch_job_text(args.job_url)
FetchJob ==
    /\ pc = "fetch"
    /\ ops' = Performed("fetch", env.page # "fail")
    /\ IF env.page = "fail"
       THEN /\ Exit(1, <<>>, <<"error: Failed to fetch job posting">>)
            /\ UNCHANGED job_text
       ELSE /\ job_text' = JobPageText(env.page)
            /\ pc' = "extract"
            /\ UNCHANGED <<stdout, stderr, exit_code>>
    /\ UNCHANGED <<job_url, cv_text, jd_verdict, cv_verdict, content>>
    /\ UNCHANGED <<env, runs, prev, urlVars, textVars, pdfVars>>

\* lines 150-155: extract_pdf_text(args.cv)
ExtractCv ==
    /\ pc = "extract"
    /\ LET result == extract_pdf_text(CvDoc(env.doc))
       IN  /\ ops' = Performed("read_pdf", result.ok)
           /\ IF ~result.ok
              THEN /\ Exit(1, <<>>, <<"error: Failed to extract CV">>)
                   /\ UNCHANGED cv_text
              ELSE /\ cv_text' = result.value
                   /\ pc' = "validate"
                   /\ UNCHANGED <<stdout, stderr, exit_code>>
    /\ UNCHANGED <<job_url, job_text, jd_verdict, cv_verdict, content>>
    /\ UNCHANGED <<env, runs, prev, urlVars, textVars, pdfVars>>

\* a classifier's return value as the run records it
Verdict(b) == IF b THEN "true" ELSE "false"

\* the outcome of the test on line 158 under a rule for combining the classifiers:
\* the job description is classified first, the CV only when the rule still needs it
Validation(reject_exit, cv_needed_when_jd) ==
    /\ pc = "validate"
    /\ LET jd == looks_like_job_description(job_text)
           cv_called == (jd = cv_needed_when_jd)
           cv == looks_like_cv(cv_text)
           rejected == IF cv_needed_when_jd THEN ~jd \/ ~cv ELSE ~jd /\ ~cv
       IN  /\ jd_verdict' = Verdict(jd)
           /\ cv_verdict' = IF cv_called THEN Verdict(cv) ELSE "uncalled"
           /\ IF rejected
              THEN Exit(reject_exit, <<"guidance">>, <<>>)
              ELSE /\ pc' = "generate"
                   /\ UNCHANGED <<stdout, stderr, exit_code>>
    /\ UNCHANGED <<job_url, job_text, cv_text, content, ops>>
    /\ UNCHANGED <<env, runs, prev, urlVars, textVars, pdfVars>>

\* faulty variant: `and` for `or`: the run is rejected only when both classifiers fail
Validate_RejectsWhenBothFail == Validation(0, FALSE)

\* faulty variant: a rejection is an error exit
Validate_RejectionExits1 == Validation(1, TRUE)

\* lines 157-165: `not looks_like_job_description(job_text) or not looks_like_cv(cv_text)`
Validate == Validation(0, TRUE)

\* lines 167-187: the prompt, the client and the chat-completion call (an
\* exception from OpenAI() on line 175, outside the try, ends the process with
\* status 1 as well)
Generate ==
    /\ pc = "generate"
    /\ ops' = Performed("generate", env.gen = "ok")
    /\ IF env.gen = "error"
       THEN /\ Exit(1, <<>>, <<"error: OpenAI API error">>)
            /\ UNCHANGED content
       ELSE /\ content' = "response"
            /\ pc' = "print"
            /\ UNCHANGED <<stdout, stderr, exit_code>>
    /\ UNCHANGED <<job_url, job_text, cv_text, jd_verdict, cv_verdict>>
    /\ UNCHANGED <<env, runs, prev, urlVars, textVars, pdfVars>>

\* line 190: print(content); main() returns and the interpreter exits with 0
PrintContent ==
    /\ pc = "print"
    /\ Exit(0, <<content>>, <<>>)
    /\ UNCHANGED <<job_url, job_text, cv_text, jd_verdict, cv_verdict, content, ops>>
    /\ UNCHANGED <<env, runs, prev, urlVars, textVars, pdfVars>>

\* the operator runs the program again, in the same environment, with a URL
RunAgain ==
    /\ pc = "exited"
    /\ runs < MaxRuns
    /\ runs' = runs + 1
    /\ prev' = [url |-> job_url, ops |-> ops, exit_code |-> exit_code,
                stdout |-> stdout, stderr |-> stderr]
    /\ \E u \in JobUrls : job_url' = Some(u)
    /\ pc' = "check_key"
    /\ job_text' = <<>>
    /\ cv_text' = <<>>
    /\ jd_verdict' = "uncalled"
    /\ cv_verdict' = "uncalled"
    /\ content' = "unset"
    /\ stdout' = <<>>
    /\ stderr' = <<>>
    /\ exit_code' = -1
    /\ ops' = <<>>
    /\ UNCHANGED <<env, urlVars, textVars, pdfVars>>

Next ==
    \/ CheckApiKey
    \/ CheckJobUrl
    \/ CheckCvFile
    \/ FetchJob
    \/ ExtractCv
    \/ Validate
    \/ Generate
    \/ PrintContent
    \/ RunAgain

Spec == Init /\ [][Next]_vars

(***************************************************************************)
(* Properties                                                              *)
(***************************************************************************)

\* the cue vocabularies and path hints as the specification lists them
ClaimCvCues ==
    { <<"e", "x", "p", "e", "r", "i", "e", "n", "c", "e">>,
      <<"e", "d", "u", "c", "a", "t", "i", "o", "n">>,
      <<"s", "k", "i", "l", "l", "s">>,
      <<"p", "r", "o", "j", "e", "c", "t", "s">>,
      <<"s", "u", "m", "m", "a", "r", "y">>,
      <<"w", "o", "r", "k">>,
      <<"c", "e", "r", "t", "i", "f", "i", "c", "a", "t", "i", "o", "n">> }

ClaimJdCues ==
    { <<"r", "e", "s", "p", "o", "n", "s", "i", "b", "i", "l", "i", "t", "i", "e", "s">>,
      <<"r", "e", "q", "u", "i", "r", "e", "m", "e", "n", "t", "s">>,
      <<"q", "u", "a", "l", "i", "f", "i", "c", "a", "t", "i", "o", "n", "s">>,
      <<"r", "o", "l", "e">>,
      <<"a", "b", "o", "u", "t", " ", "t", "h", "e", " ", "r", "o", "l", "e">>,
      <<"w", "h", "a", "t", " ", "y", "o", "u", "'", "l", "l", " ", "d", "o">> }

ClaimHints ==
    { <<"/", "j", "o", "b", "s">>,
      <<"/", "c", "a", "r", "e", "e", "r", "s">>,
      <<"/", "j", "o", "b", "/">>,
      <<"/", "p", "o", "s", "i", "t", "i", "o", "n", "s">>,
      <<"/", "o", "p", "e", "n", "i", "n", "g", "s">> }

\* the distinct members of a vocabulary that occur in the lower-cased text
CuesPresent(vocabulary, t) ==
    LET low == Lower(t)
    IN  {c \in vocabulary : Contains(low, c)}

\* C7: looks_like_cv(text) is true exactly when the text has at least 500
\* characters and at least 2 distinct CV cues occur in its lower-cased form; so it
\* is false below 500 characters whatever the cues, false with 0 or 1 cues, and
\* true with exactly 2 cues at exactly 500 characters.
C7_LooksLikeCv ==
    cvDone =>
        LET n == Cardinality(CuesPresent(ClaimCvCues, text))
        IN  /\ cvResult = (Len(text) >= 500 /\ n >= 2)
            /\ (Len(text) < 500 => ~cvResult)
            /\ (n <= 1 => ~cvResult)
            /\ (Len(text) = 500 /\ n = 2 => cvResult)

\* a text of exactly 500 characters with exactly 2 distinct cues was accepted
C7_Witness ==
    /\ cvDone
    /\ cvResult
    /\ Len(text) = 500
    /\ Cardinality(CuesPresent(ClaimCvCues, text)) = 2

\* C8: looks_like_job_description(text) is true exactly when the text has at
\* least 500 characters and at least 1 job-description cue occurs in its
\* lower-cased form; so it is false below 500 characters whatever the cues and
\* false at any length with no cue.
C8_LooksLikeJobDescription ==
    jdDone =>
        LET n == Cardinality(CuesPresent(ClaimJdCues, text))
        IN  /\ jdResult = (Len(text) >= 500 /\ n >= 1)
            /\ (Len(text) < 500 => ~jdResult)
            /\ (n = 0 => ~jdResult)

\* a text of at least 500 characters with exactly 1 cue was accepted
C8_Witness ==
    /\ jdDone
    /\ jdResult
    /\ Len(text) >= 500
    /\ Cardinality(CuesPresent(ClaimJdCues, text)) = 1

UrlCareers123 ==
    <<"h", "t", "t", "p", "s", ":", "/", "/", "c", "o", "m", "p", "a", "n", "y", ".", "c", "o", "m",
      "/", "c", "a", "r", "e", "e", "r", "s", "/", "1", "2", "3">>

UrlAbout ==
    <<"h", "t", "t", "p", "s", ":", "/", "/", "c", "o", "m", "p", "a", "n", "y", ".", "c", "o", "m",
      "/", "a", "b", "o", "u", "t">>

UrlFtpJobs ==
    <<"f", "t", "p", ":", "/", "/", "c", "o", "m", "p", "a", "n", "y", ".", "c", "o", "m",
      "/", "j", "o", "b", "s">>

\* the URL is written with an http or https scheme: it begins "http://" or "https://"
HasHttpScheme(s) ==
    \/ StartsWith(s, <<"h", "t", "t", "p", ":", "/", "/">>)
    \/ StartsWith(s, <<"h", "t", "t", "p", "s", ":", "/", "/">>)

\* C9: is_probable_job_url(url) is true exactly when the url begins with an http
\* or https scheme and its lower-cased form contains one of /jobs, /careers,
\* /job/, /positions, /openings; it is false for a missing or empty url, for
\* ftp://company.com/jobs and for https://company.com/about, and true for
\* https://company.com/careers/123.
C9_IsProbableJobUrl ==
    urlDone =>
        /\ urlResult =
              /\ url # None
              /\ HasHttpScheme(url[1])
              /\ \E h \in ClaimHints : Contains(Lower(url[1]), h)
        /\ (url = None \/ url = Some(<<>>) => ~urlResult)
        /\ (url = Some(UrlFtpJobs) => ~urlResult)
        /\ (url = Some(UrlAbout) => ~urlResult)
        /\ (url = Some(UrlCareers123) => urlResult)

\* https://company.com/careers/123 was checked and found plausible
C9_Witness ==
    /\ urlDone
    /\ url = Some(UrlCareers123)
    /\ urlResult

\* the pages whose extract_text() does not raise, in document order
NonRaising(pages) == SelectSeq(pages, LAMBDA page : page.kind # "raise")

\* the text a page yields: its string, or nothing for None and for a fault
PageText(page) == IF page.kind = "text" THEN page.text ELSE <<>>

\* one entry per page of `pages`
Entries(pages) == [i \in 1..Len(pages) |-> PageText(pages[i])]

\* the pieces occur in s one after the other, without overlap, from position `from` on
RECURSIVE OccurInOrder(_, _, _)
OccurInOrder(s, pieces, from) ==
    IF pieces = <<>>
    THEN TRUE
    ELSE LET piece == Head(pieces)
             at == {i \in from..(Len(s) - Len(piece) + 1) : MatchAt(s, piece, i)}
         IN  /\ at # {}
             /\ OccurInOrder(s, Tail(pieces),
                             (CHOOSE i \in at : \A j \in at : i <= j) + Len(piece))

\* a page has text to show: its extraction returns a string that is not all blank
HasText(page) == page.kind = "text" /\ Strip(page.text) # <<>>

\* C4: on a readable PDF extract_pdf_text returns normally whichever pages
\* raise, and the result holds the text of every page that does not raise, in
\* document order (each page's text up to the final trim of the result); a
\* 3-page document whose page 2 raises yields the non-empty newline-join of
\* pages 1 and 3; a document whose pages all raise or have no text yields "".
C4_PageFaultsTolerated ==
    pdfDone /\ pdf.readable =>
        LET pages == pdf.pages
            good == NonRaising(pages)
        IN  /\ pdfResult.ok
            /\ OccurInOrder(pdfResult.value, [i \in 1..Len(good) |-> Strip(PageText(good[i]))], 1)
            /\ (\A i \in 1..Len(pages) : pages[i].kind = "raise" \/ PageText(pages[i]) = <<>>)
                  => pdfResult.value = <<>>
            /\ (Len(pages) = 3 /\ HasText(pages[1]) /\ pages[2].kind = "raise" /\ HasText(pages[3]))
                  => /\ pdfResult.value = Strip(pages[1].text \o <<"\n">> \o pages[3].text)
                     /\ pdfResult.value # <<>>

\* a 3-page document whose page 2 raised was extracted to a non-empty text
C4_Witness ==
    /\ pdfDone
    /\ pdf.readable
    /\ Len(pdf.pages) = 3
    /\ HasText(pdf.pages[1])
    /\ pdf.pages[2].kind = "raise"
    /\ HasText(pdf.pages[3])
    /\ pdfResult.ok
    /\ pdfResult.value # <<>>

\* C10 as stated: the result is the trimmed newline-join of one entry per page
\* of the document, the entry of a page that raises being the empty string.
C10_OneEntryPerPage ==
    pdfDone /\ pdf.readable =>
        pdfResult = Returned(Strip(Join(<<"\n">>, Entries(pdf.pages))))

\* C10 (amended): the result is the trimmed newline-join of one entry per page
\* whose extraction does not raise, in document order; a page that raises
\* leaves no entry, so taking the raising pages out of the document does not
\* change the returned text.
C10_OneEntryPerReturningPage ==
    pdfDone /\ pdf.readable =>
        /\ pdfResult = Returned(Strip(Join(<<"\n">>, Entries(NonRaising(pdf.pages)))))
        /\ pdfResult = extract_pdf_text([pdf EXCEPT !.pages = NonRaising(@)])

\* a document with a raising page between two pages of text was extracted, and
\* the raising page left no empty line behind
C10_Witness ==
    /\ pdfDone
    /\ pdf.readable
    /\ \E i \in 2..(Len(pdf.pages) - 1) :
          /\ pdf.pages[i].kind = "raise"
          /\ HasText(pdf.pages[i - 1])
          /\ HasText(pdf.pages[i + 1])
    /\ pdfResult.ok
    /\ pdfResult.value # Strip(Join(<<"\n">>, Entries(pdf.pages)))

\* the run has attempted the operation / the operation was attempted and failed
Attempted(op) == \E i \in 1..Len(ops) : ops[i].op = op
Failed(op) == \E i \in 1..Len(ops) : ops[i].op = op /\ ~ops[i].ok

\* the line was written to the stream
Printed(stream, line) == \E i \in 1..Len(stream) : stream[i] = line

\* C1: the generative call is attempted only in runs where both classifiers
\* returned true; in a run where one of them returned false the guidance
\* message is printed, the process exits with code 0 and no generative call is
\* attempted.
C1_GenerativeCallGated ==
    /\ Attempted("generate") =>
          /\ jd_verdict = "true" /\ looks_like_job_description(job_text)
          /\ cv_verdict = "true" /\ looks_like_cv(cv_text)
    /\ (jd_verdict = "false" \/ cv_verdict = "false") =>
          /\ pc = "exited"
          /\ exit_code = 0
          /\ stdout # <<>> /\ stdout[Len(stdout)] = "guidance"
          /\ stderr = <<>>
          /\ ~Attempted("generate")
          /\ content = "unset"

\* a 50-character CV met a well-formed job description: the run was rejected
\* with the guidance message and exit code 0, and made no generative call
C1_Witness ==
    /\ pc = "exited"
    /\ Len(cv_text) = 50
    /\ jd_verdict = "true"
    /\ cv_verdict = "false"
    /\ Printed(stdout, "guidance")
    /\ exit_code = 0
    /\ ~Attempted("generate")

\* C2: a run that has ended has exit code 2 exactly when the API key is missing
\* or the CV file does not exist, 1 exactly when the fetch, the PDF extraction
\* or the generative call failed, and 0 exactly when it ended in a rejection or
\* in a printed generative response.
C2_ExitCodes ==
    pc = "exited" =>
        /\ exit_code \in {0, 1, 2}
        /\ exit_code = 2 <=> (~env.api_key \/ ~env.cv_exists)
        /\ exit_code = 1 <=> (Failed("fetch") \/ Failed("read_pdf") \/ Failed("generate"))
        /\ exit_code = 0 <=> (Printed(stdout, "guidance") \/ Printed(stdout, "response"))

\* a run was rejected by the classifiers and ended with exit code 0
C2_Witness ==
    /\ pc = "exited"
    /\ Printed(stdout, "guidance")
    /\ exit_code = 0
    /\ env.api_key
    /\ env.cv_exists

\* the order main() performs its operations in
PipelineOrder == <<"fetch", "read_pdf", "generate">>

\* C3: in a run the fetch, the PDF read and the generative call happen at most
\* once each and in that order; an operation starts only after every earlier
\* one has succeeded, and after a failed operation nothing more is performed.
C3_OnceEachInOrder ==
    /\ Len(ops) <= Len(PipelineOrder)
    /\ \A i \in 1..Len(ops) : ops[i].op = PipelineOrder[i]
    /\ \A i \in 1..(Len(ops) - 1) : ops[i].ok
    /\ (ops # <<>> /\ ~ops[Len(ops)].ok) => pc = "exited"

\* a run performed all three operations
C3_Witness ==
    /\ Len(ops) = 3
    /\ Attempted("generate")
    /\ pc = "exited"

\* C5: a run that finds the API key missing or the CV file missing exits with
\* code 2 having performed no fetch, no PDF read and no generative call and
\* having written nothing but the one error diagnostic: nothing on standard
\* output, whatever the job URL.
C5_ConfigurationErrorNoOutput ==
    (pc = "exited" /\ (~env.api_key \/ ~env.cv_exists)) =>
        /\ exit_code = 2
        /\ ops = <<>>
        /\ stdout = <<>>
        /\ Len(stderr) = 1

\* the verdict of the URL check on a run's URL
UrlPasses(u) == is_probable_job_url(u)

NoticeLine == "notice: URL does not look like a job posting"

\* C6: two runs in the same environment perform the same operations and end
\* with the same exit code whatever their URLs; when the URL check passed in
\* one and failed in the other, the failing run's output is the passing run's
\* with one notice line before it (and when the key is missing, so that the
\* check is never reached, the two runs are the same).
C6_UrlCheckNeverBlocks ==
    (pc = "exited" /\ runs > 1) =>
        /\ ops = prev.ops
        /\ exit_code = prev.exit_code
        /\ stderr = prev.stderr
        /\ (env.api_key /\ UrlPasses(prev.url) /\ ~UrlPasses(job_url))
              => stdout = <<NoticeLine>> \o prev.stdout
        /\ (env.api_key /\ ~UrlPasses(prev.url) /\ UrlPasses(job_url))
              => prev.stdout = <<NoticeLine>> \o stdout
        /\ ~env.api_key => stdout = prev.stdout

\* after a run with a passing URL that went through to the printed response, a
\* run with a failing URL did the same and printed the notice first
C6_Witness ==
    /\ pc = "exited"
    /\ runs > 1
    /\ UrlPasses(prev.url)
    /\ ~UrlPasses(job_url)
    /\ Len(ops) = 3
    /\ exit_code = 0
    /\ stdout = <<NoticeLine, "response">>
    /\ prev.stdout = <<"response">>

====
